---- MODULE Spec2Model ----
(***************************************************************************)
(* Model of src/main.py (class App): getInfo reshapes the API records into *)
(* the per-county store self.data, plotData turns one county's series into *)
(* the x axis, the polynomial fit inputs, the split line and the forecast  *)
(* points; startGUI wires both to the Tk widgets.                          *)
(*                                                                         *)
(* Representation of the Python values:                                    *)
(*   text 'dd-mm-yyyy'      <<dd, mm, yyyy>>                               *)
(*   text 'YYYY-MM-DD'      <<yyyy, mm, dd>>                               *)
(*   naive datetime         wall-clock seconds since 2021-01-01 00:00      *)
(*   POSIX timestamp        seconds since 2021-01-01 00:00 UTC             *)
(*   float cell of a frame  [num, den], the value num/den; den = 0 is NaN  *)
(*   dict (ordered)         sequence of [key, val] in insertion order      *)
(***************************************************************************)
EXTENDS Integers, Sequences, FiniteSets, TLC

VARIABLES start_date, end_date, district, r, data, getInfo_raised, county_menu, county_options,
          pc, plot

vars == <<start_date, end_date, district, r, data, getInfo_raised, county_menu, county_options,
          pc, plot>>

(***************************************************************************)
(* Bounds of the model                                                     *)
(***************************************************************************)
MaxRecords == 2
MaxPlotRecords == 3
MaxDegree == 2
MaxPredictions == 2

(***************************************************************************)
(* str.upper, str.capitalize and the ordering of str on the names used     *)
(***************************************************************************)
upper(s) ==
    CASE s \in {"BRAGA", "Braga", "braga"} -> "BRAGA"
      [] s \in {"BARCELOS", "Barcelos"} -> "BARCELOS"
      [] s \in {"PORTO", "Porto"} -> "PORTO"

capitalize(s) ==
    CASE s \in {"BRAGA", "Braga", "braga"} -> "Braga"
      [] s \in {"BARCELOS", "Barcelos"} -> "Barcelos"
      [] s \in {"PORTO", "Porto"} -> "Porto"

\* position of a name in the code-point order of Python str
StrRank(s) ==
    CASE s = "BARCELOS" -> 1
      [] s = "BRAGA" -> 2
      [] s = "Barcelos" -> 3
      [] s = "Braga" -> 4
      [] s = "PORTO" -> 5
      [] s = "Porto" -> 6
      [] s = "braga" -> 7

DISTRICTS == <<"Porto", "Braga">>

(***************************************************************************)
(* Calendar: datetime, strptime, str of a Timestamp                        *)
(***************************************************************************)
DAY == 86400

\* 2021 and 2022, the years the model's dates fall in, are not leap years
MonthLen == <<31, 28, 31, 30, 31, 30, 31, 31, 30, 31, 30, 31>>

RECURSIVE DaysBeforeMonth(_)
DaysBeforeMonth(m) == IF m = 1 THEN 0 ELSE DaysBeforeMonth(m - 1) + MonthLen[m - 1]

\* days of the year before the first of each month
DaysBefore == [m \in 1..12 |-> DaysBeforeMonth(m)]

\* datetime(y, m, d): midnight of the day, as wall-clock seconds
datetime(y, m, d) == ((y - 2021) * 365 + DaysBefore[m] + (d - 1)) * DAY

\* the calendar date <<y, m, d>> of a datetime
DateOf(w) ==
    LET o == w \div DAY
        y == 2021 + (o \div 365)
        doy == o % 365
        m == CHOOSE k \in 1..12 : /\ DaysBefore[k] <= doy
                                  /\ doy < DaysBefore[k] + MonthLen[k]
    IN <<y, m, doy - DaysBefore[m] + 1>>

\* datetime.strptime(s, '%d-%m-%Y')
strptime_dmy(s) == datetime(s[3], s[2], s[1])

\* datetime.strptime(s, '%Y-%m-%d')
strptime_ymd(s) == datetime(s[1], s[2], s[3])

\* pandas.Timestamp(s) of a text 'NN-NN-YYYY', to which a datetime column is
\* compared: the month is read first, and the day first only when the first
\* number cannot be a month
Timestamp(s) ==
    IF s[1] <= 12 THEN datetime(s[3], s[1], s[2]) ELSE datetime(s[3], s[2], s[1])

\* DatetimeIndex.astype(str) of midnight timestamps: 'YYYY-MM-DD'
astype_str(w) == DateOf(w)

(***************************************************************************)
(* Helpers on sequences                                                    *)
(***************************************************************************)
Range(s) == {s[i] : i \in 1..Len(s)}

Min(a, b) == IF a <= b THEN a ELSE b

Max(a, b) == IF a >= b THEN a ELSE b

SetMin(S) == CHOOSE a \in S : \A b \in S : a <= b

RECURSIVE SortAsc(_)
SortAsc(S) == IF S = {} THEN <<>> ELSE <<SetMin(S)>> \o SortAsc(S \ {SetMin(S)})

RECURSIVE FirstSeen(_)
FirstSeen(s) ==
    IF s = <<>> THEN <<>>
    ELSE LET t == FirstSeen(SubSeq(s, 1, Len(s) - 1))
         IN IF s[Len(s)] \in Range(t) THEN t ELSE Append(t, s[Len(s)])

RECURSIVE SeqSum(_)
SeqSum(s) == IF s = <<>> THEN 0 ELSE s[1] + SeqSum(Tail(s))

SeqMap(Op(_), s) == [i \in 1..Len(s) |-> Op(s[i])]

(***************************************************************************)
(* getInfo                                                                 *)
(***************************************************************************)
\* df['data'] = df['data'].apply(strptime '%d-%m-%Y')
ConvertDates(df) ==
    [i \in 1..Len(df) |-> [df[i] EXCEPT !.data = strptime_dmy(df[i].data)]]

\* df[df['distrito'] == district.upper()]
FilterDistrict(df, d) == SelectSeq(df, LAMBDA row : row.distrito = upper(d))

\* df[(df['data'] >= self.start_date) & (df['data'] <= self.end_date)]:
\* the bounds are the texts self.start_date and self.end_date, not the
\* datetimes parsed on lines 70-71
FilterDates(df, sd, ed) ==
    SelectSeq(df, LAMBDA row : row.data >= Timestamp(sd) /\ row.data <= Timestamp(ed))

\* the index of the pivot table: the distinct dates, sorted
PivotIndexUnsorted(df) == FirstSeen(SeqMap(LAMBDA row : row.data, df))

PivotIndex(df) == SortAsc(Range(SeqMap(LAMBDA row : row.data, df)))

\* the columns of the pivot table: the distinct counties, sorted
PivotColumns(df) ==
    LET S == Range(SeqMap(LAMBDA row : row.concelho, df))
        rk == SortAsc({StrRank(c) : c \in S})
    IN [i \in 1..Len(rk) |-> CHOOSE c \in S : StrRank(c) = rk[i]]

\* aggfunc of pivot_table, 'mean' by default, of the values of one cell
AggLast(v) == IF v = <<>> THEN [num |-> 0, den |-> 0] ELSE [num |-> v[Len(v)], den |-> 1]

AggMean(v) == [num |-> SeqSum(v), den |-> Len(v)]

\* the values of the rows of one (date, county) cell
CellValues(df, c, w) ==
    SeqMap(LAMBDA row : row.confirmados_1,
           SelectSeq(df, LAMBDA row : row.concelho = c /\ row.data = w))

\* df.pivot_table(...); df.index.astype(str); df.to_dict()
pivot_to_dict(df) ==
    LET idx == PivotIndex(df)
        cols == PivotColumns(df)
    IN [c \in Range(cols) |->
          [i \in 1..Len(idx) |->
             [key |-> astype_str(idx[i]), val |-> AggMean(CellValues(df, c, idx[i]))]]]

\* list(self.data.keys()): the columns in their order
Keys(d) ==
    LET rk == SortAsc({StrRank(c) : c \in DOMAIN d})
    IN [i \in 1..Len(rk) |-> CHOOSE c \in DOMAIN d : StrRank(c) = rk[i]]

\* the frame after both filters
Filtered(json, d, sd, ed) == FilterDates(FilterDistrict(ConvertDates(json), d), sd, ed)

\* self.data after getInfo(district=d) on the response json; data.json, which
\* save_json writes from the same table, is never read back
getInfo(json, d, sd, ed) == pivot_to_dict(Filtered(json, d, sd, ed))

(***************************************************************************)
(* Local time: datetime.timestamp and datetime.fromtimestamp               *)
(***************************************************************************)
\* the zone of the process: without daylight saving, and the zone of the
\* data's country, which has it
TimeZones == {"UTC", "Europe/Lisbon"}

\* summer time of Europe/Lisbon as [first, last) UTC instants: from 01:00 UTC
\* of the last Sunday of March to 01:00 UTC of the last Sunday of October
SummerTime ==
    { <<datetime(2021, 3, 28) + 3600, datetime(2021, 10, 31) + 3600>>,
      <<datetime(2022, 3, 27) + 3600, datetime(2022, 10, 30) + 3600>> }

\* UTC offset of the zone at a POSIX timestamp
utcoffset(tz, ts) ==
    IF tz = "Europe/Lisbon" /\ \E p \in SummerTime : p[1] <= ts /\ ts < p[2]
    THEN 3600 ELSE 0

\* UTC offset of the zone at a wall-clock time (fold = 0)
utcoffset_local(tz, w) ==
    IF tz = "Europe/Lisbon" /\ \E p \in SummerTime : p[1] + 3600 <= w /\ w < p[2] + 3600
    THEN 3600 ELSE 0

\* naive datetime.timestamp(): the wall-clock time read in the local zone
timestamp(w, tz) == w - utcoffset_local(tz, w)

\* datetime.fromtimestamp(ts): the wall-clock time of the local zone
fromtimestamp(ts, tz) == ts + utcoffset(tz, ts)

(***************************************************************************)
(* Python and numpy primitives used by plotData                            *)
(***************************************************************************)
\* list(range(a, b, step)) for step > 0
PyRange(a, b, step) ==
    LET n == IF b > a THEN (b - a + step - 1) \div step ELSE 0
    IN [i \in 1..n |-> a + (i - 1) * step]

\* a slice bound clipped to a sequence of length n
PyBound(i, n) == IF i < 0 THEN Max(i + n, 0) ELSE Min(i, n)

\* s[lo:hi]; s[lo:] is PySlice(s, lo, Len(s)) and s[:hi] is PySlice(s, 0, hi)
PySlice(s, lo, hi) == SubSeq(s, PyBound(lo, Len(s)) + 1, PyBound(hi, Len(s)))

\* np.diff
np_diff(a) == [i \in 1..(Len(a) - 1) |-> a[i + 1] - a[i]]

\* timedelta.days
days(td) == td \div DAY

\* ndarray.cumsum
RECURSIVE cumsum(_)
cumsum(a) ==
    IF Len(a) <= 1 THEN a
    ELSE LET c == cumsum(SubSeq(a, 1, Len(a) - 1))
         IN Append(c, c[Len(c)] + a[Len(a)])

\* what ndarray.astype(int) makes of NaN is not defined by numpy: the
\* conversion yields the smallest int64 on x86-64 and 0 on AArch64
NanCasts == {"INT64_MIN", "0"}

\* np.array(y).astype(int) of one float cell: truncation, or the cast of NaN
astype_int(v, nan) ==
    IF v.den = 0 THEN [int |-> 0, of |-> nan] ELSE [int |-> v.num \div v.den, of |-> "float"]

\* np.polyfit(x, y, deg): the checks on its arguments, then the least-squares
\* problem it solves; a rank below deg + 1 is only warned about
polyfit_full_rank(x, y, deg) ==
    IF deg < 0 THEN [raised |-> "ValueError"]
    ELSE IF Len(x) = 0 THEN [raised |-> "TypeError"]
    ELSE IF Len(x) # Len(y) THEN [raised |-> "TypeError"]
    ELSE IF Cardinality(Range(x)) < deg + 1 THEN [raised |-> "LinAlgError"]
    ELSE [raised |-> "", x |-> x, y |-> y, deg |-> deg, order |-> deg + 1,
          RankWarning |-> FALSE]

polyfit(x, y, deg) ==
    IF deg < 0 THEN [raised |-> "ValueError"]
    ELSE IF Len(x) = 0 THEN [raised |-> "TypeError"]
    ELSE IF Len(x) # Len(y) THEN [raised |-> "TypeError"]
    ELSE [raised |-> "", x |-> x, y |-> y, deg |-> deg, order |-> deg + 1,
          RankWarning |-> Min(Cardinality(Range(x)), deg + 1) # deg + 1]

(***************************************************************************)
(* plotData                                                                *)
(***************************************************************************)
month_diff == 1 * 30 * 24 * 60 * 60

\* new_dates_ts
new_dates_ts_short(last_date_ts, predictions) ==
    PyRange(last_date_ts + month_diff, last_date_ts + predictions * month_diff, month_diff)

new_dates_ts(last_date_ts, predictions) ==
    PyRange(last_date_ts + month_diff, last_date_ts + (predictions + 1) * month_diff, month_diff)

\* dates, with the dates of the predictions appended
PlotDates(keys, predictions, tz) ==
    LET dates == SeqMap(strptime_ymd, keys)
    IN IF predictions > 0
       THEN dates \o SeqMap(LAMBDA t : fromtimestamp(t, tz),
                            new_dates_ts(timestamp(dates[Len(dates)], tz), predictions))
       ELSE dates

\* x = np.array([0] + [x.days for x in np.diff(np.array(dates))]).cumsum()
NormalizeNoCumsum(dates) == <<0>> \o SeqMap(days, np_diff(dates))

Normalize(dates) == cumsum(<<0>> \o SeqMap(days, np_diff(dates)))

\* the x values handed to np.polyfit
FitXHead(x, predictions) == IF predictions > 0 THEN PySlice(x, predictions, Len(x)) ELSE x

FitX(x, predictions) == IF predictions > 0 THEN PySlice(x, 0, -predictions) ELSE x

\* the argument of plt.axvline: the x values whose mean is the split line
SplitGeneric(x, predictions) ==
    IF predictions >= 1
    THEN [drawn |-> TRUE, of |-> PySlice(x, -predictions - 1, -predictions + 1)]
    ELSE [drawn |-> FALSE, of |-> <<>>]

Split(x, predictions) ==
    IF predictions > 1
    THEN [drawn |-> TRUE, of |-> PySlice(x, -predictions - 1, -predictions + 1)]
    ELSE IF predictions = 1
    THEN [drawn |-> TRUE, of |-> PySlice(x, -2, Len(x))]
    ELSE [drawn |-> FALSE, of |-> <<>>]

\* the x values of the '*' markers, where the polynomial is evaluated
Predicted(x, predictions) ==
    IF predictions > 0
    THEN [drawn |-> TRUE, x |-> PySlice(x, -predictions, Len(x))]
    ELSE [drawn |-> FALSE, x |-> <<>>]

\* the keys plotData reads the dates and the values with
DatesKey(county) == upper(county)

ValuesKey(county) == county

NoFit == [raised |-> "none"]

NoPlot ==
    [raised |-> "none", county |-> "", degree |-> 0, predictions |-> 0, tz |-> "",
     dates_key |-> "", values_key |-> "", dates |-> <<>>, x |-> <<>>, y |-> <<>>,
     z |-> NoFit, axvline |-> [drawn |-> FALSE, of |-> <<>>],
     confirmed |-> <<>>, predicted |-> [drawn |-> FALSE, x |-> <<>>]]

\* the figure plotData(county, degree, predictions) makes of the store d, in
\* a process whose zone is tz and whose NaN conversion is nan
plotData(d, county, degree, predictions, tz, nan) ==
    LET args == [NoPlot EXCEPT !.county = county, !.degree = degree,
                               !.predictions = predictions, !.tz = tz]
    IN IF DatesKey(county) \notin DOMAIN d
       THEN [args EXCEPT !.raised = "KeyError"]
       ELSE
       LET dates == PlotDates(SeqMap(LAMBDA e : e.key, d[DatesKey(county)]), predictions, tz)
           x == Normalize(dates)
           got == [args EXCEPT !.dates_key = DatesKey(county), !.dates = dates, !.x = x]
       IN IF ValuesKey(county) \notin DOMAIN d
          THEN [got EXCEPT !.raised = "KeyError"]
          ELSE
          LET y == SeqMap(LAMBDA e : astype_int(e.val, nan), d[ValuesKey(county)])
              z == polyfit(FitX(x, predictions), y, degree)
              fitted == [got EXCEPT !.values_key = ValuesKey(county), !.y = y, !.z = z]
          IN IF z.raised # ""
             THEN [fitted EXCEPT !.raised = z.raised]
             ELSE [fitted EXCEPT !.raised = "",
                                 !.axvline = Split(x, predictions),
                                 !.confirmed = FitX(x, predictions),
                                 !.predicted = Predicted(x, predictions)]

(***************************************************************************)
(* Inputs                                                                  *)
(***************************************************************************)
\* the responses of the API: at most n records r.json(), each out of D
Responses(D, n) == UNION {[1..k -> D] : k \in 1..n}

\* records for getInfo: the district asked for, the same in another letter
\* case and another one; two counties; dates at, inside and after the ranges;
\* two values, so that records of one county and date can differ
InfoRecords ==
    [distrito : {"BRAGA", "Braga", "PORTO"}, concelho : {"BRAGA", "BARCELOS"},
     data : {<<1, 1, 2021>>, <<13, 1, 2021>>, <<1, 3, 2021>>}, confirmados_1 : {1, 2}]

\* <<start_date, end_date>>: one whose texts read the same day-first and
\* month-first, one whose start and one whose end do not
InfoRanges ==
    { <<<<1, 1, 2021>>, <<13, 1, 2021>>>>,
      <<<<3, 1, 2021>>, <<13, 1, 2021>>>>,
      <<<<1, 1, 2021>>, <<5, 2, 2021>>>> }

\* records for plotData, in the order of the API: one district; a county
\* under two spellings and another county; dates 2 and 7 days apart, and one
\* in the month before summer time ends
PlotRecords ==
    LET rec(c, d) == [distrito |-> "BRAGA", concelho |-> c, data |-> d, confirmados_1 |-> 1]
    IN << rec("BRAGA", <<1, 1, 2021>>), rec("braga", <<1, 1, 2021>>),
          rec("BRAGA", <<3, 1, 2021>>), rec("braga", <<3, 1, 2021>>),
          rec("BARCELOS", <<3, 1, 2021>>),
          rec("BRAGA", <<10, 1, 2021>>), rec("BRAGA", <<10, 10, 2021>>) >>

\* the responses made of at most n of the records of L, in the order of L
Selections(L, n) ==
    LET pick(S) == SelectSeq([i \in 1..Len(L) |-> IF i \in S THEN <<L[i]>> ELSE <<>>],
                             LAMBDA e : e # <<>>)
    IN { [i \in 1..Len(pick(S)) |-> pick(S)[i][1]] :
           S \in {T \in SUBSET (1..Len(L)) : Cardinality(T) \in 1..n} }

PlotRanges == { <<<<1, 1, 2021>>, <<15, 10, 2021>>>> }

PlotCounties == {"BRAGA", "braga"}

Degrees == 1..MaxDegree

Predictions == 0..MaxPredictions

(***************************************************************************)
(* State machine                                                           *)
(***************************************************************************)
\* myApp = App(start_date, end_date): __init__ ran getInfo() for 'Braga' on a
\* response with status 200
Constructed(json, range) ==
    /\ start_date = range[1]
    /\ end_date = range[2]
    /\ district = "Braga"
    /\ r = json
    /\ data = getInfo(json, "Braga", range[1], range[2])
    /\ getInfo_raised = ""
    /\ county_menu = ""
    /\ county_options = {}
    /\ pc = "constructed"
    /\ plot = NoPlot

InitInfo == \E json \in Responses(InfoRecords, MaxRecords), range \in InfoRanges :
                Constructed(json, range)

InitPlot == \E json \in Selections(PlotRecords, MaxPlotRecords), range \in PlotRanges :
                Constructed(json, range)

Init == InitInfo \/ InitPlot

\* startGUI up to window.mainloop(): getInfo for the district of the menu,
\* then the county menu is set to the first county of the store
startGUI(status) ==
    /\ pc = "constructed"
    /\ district' = "Braga"
    /\ IF status # 200
       THEN /\ getInfo_raised' = "Exception"
            /\ pc' = "raised"
            /\ UNCHANGED <<data, county_menu, county_options>>
       ELSE /\ data' = getInfo(r, "Braga", start_date, end_date)
            /\ getInfo_raised' = ""
            /\ IF Keys(data') = <<>>
               THEN /\ pc' = "raised"
                    /\ UNCHANGED <<county_menu, county_options>>
               ELSE /\ county_menu' = capitalize(Keys(data')[1])
                    /\ county_options' = {capitalize(k) : k \in DOMAIN data'}
                    /\ pc' = "mainloop"
    /\ UNCHANGED <<start_date, end_date, r, plot>>

\* district_menu_change, the trace of district_menu
district_menu_change(d, status) ==
    /\ pc = "mainloop"
    /\ district' = d
    /\ IF status # 200
       THEN /\ getInfo_raised' = "Exception"
            /\ UNCHANGED <<data, county_menu, county_options>>
       ELSE /\ data' = getInfo(r, d, start_date, end_date)
            /\ getInfo_raised' = ""
            /\ IF Keys(data') = <<>>
               THEN UNCHANGED <<county_menu, county_options>>
               ELSE /\ county_menu' = capitalize(Keys(data')[1])
                    /\ county_options' = {capitalize(k) : k \in DOMAIN data'}
    /\ UNCHANGED <<start_date, end_date, r, pc, plot>>

\* the user picks a county in county_menu_dropdown
county_menu_select(c) ==
    /\ pc = "mainloop"
    /\ c \in county_options
    /\ county_menu' = c
    /\ UNCHANGED <<start_date, end_date, district, r, data, getInfo_raised, county_options, pc, plot>>

\* the button 'Plot selected county data'
button(degree, predictions, tz, nan) ==
    /\ pc = "mainloop"
    /\ plot' = plotData(data, upper(county_menu), degree, predictions, tz, nan)
    /\ UNCHANGED <<start_date, end_date, district, r, data, getInfo_raised, county_menu,
                   county_options, pc>>

\* myApp.plotData(county, degree, predictions) called on the object
call_plotData(county, degree, predictions, tz, nan) ==
    /\ pc # "raised"
    /\ plot' = plotData(data, county, degree, predictions, tz, nan)
    /\ UNCHANGED <<start_date, end_date, district, r, data, getInfo_raised, county_menu,
                   county_options, pc>>

\* the conversions of NaN the store d can meet: one when it holds no NaN
Casts(d) ==
    IF \E c \in DOMAIN d : \E i \in 1..Len(d[c]) : d[c][i].val.den = 0
    THEN NanCasts ELSE {"INT64_MIN"}

NextInfo ==
    \/ \E status \in {200, 503} : startGUI(status)
    \/ \E d \in Range(DISTRICTS), status \in {200, 503} : district_menu_change(d, status)

NextPlot ==
    \/ \E status \in {200, 503} : startGUI(status)
    \/ \E c \in county_options : county_menu_select(c)
    \/ \E degree \in Degrees, predictions \in Predictions, tz \in TimeZones, nan \in Casts(data) :
          button(degree, predictions, tz, nan)
    \/ \E county \in PlotCounties, degree \in Degrees, predictions \in Predictions,
          tz \in TimeZones, nan \in Casts(data) :
          call_plotData(county, degree, predictions, tz, nan)

Next == NextInfo \/ NextPlot

\* the application
Spec == Init /\ [][Next]_vars

\* the application on the inputs that exercise getInfo
SpecInfo == InitInfo /\ [][NextInfo]_vars

\* the application on the inputs that exercise plotData
SpecPlot == InitPlot /\ [][NextPlot]_vars

(***************************************************************************)
(* Properties of getInfo (checked under SpecInfo)                          *)
(***************************************************************************)
\* self.data is the store of the last getInfo call
StoreBuilt == getInfo_raised = ""

\* the records of the response that pass getInfo's two filters
Kept == Filtered(r, district, start_date, end_date)

\* the store holds an observation of county c on the day of datetime w
InStore(c, w) ==
    /\ c \in DOMAIN data
    /\ \E i \in 1..Len(data[c]) : data[c][i].key = DateOf(w)

\* the counties and the days named by the response or by the store
Counties == {r[i].concelho : i \in 1..Len(r)} \cup DOMAIN data

Days ==
    {strptime_dmy(r[i].data) : i \in 1..Len(r)}
       \cup UNION {{strptime_ymd(data[c][i].key) : i \in 1..Len(data[c])} : c \in DOMAIN data}

\* C6: the store holds an observation (county, date) exactly when some record
\* of the response has the requested district, letter case ignored, that
\* county and that date, and the date lies in [start_date, end_date] with
\* both ends included.
C6_FilterCorrect ==
    StoreBuilt =>
      \A c \in Counties, w \in Days :
         InStore(c, w) <=>
           \E i \in 1..Len(r) :
              /\ upper(r[i].distrito) = upper(district)
              /\ r[i].concelho = c
              /\ strptime_dmy(r[i].data) = w
              /\ strptime_dmy(start_date) <= w
              /\ w <= strptime_dmy(end_date)

\* C7: in the store getInfo builds, whatever the order of the records, the
\* dates of every county are strictly increasing (hence without duplicates),
\* and every county of the store has at least one date and comes from at
\* least one record that passed the filters: no county is stored with an
\* empty series.
C7_SeriesOrdered ==
    StoreBuilt =>
      \A c \in DOMAIN data :
         /\ Len(data[c]) >= 1
         /\ \A i \in 1..(Len(data[c]) - 1) :
               strptime_ymd(data[c][i].key) < strptime_ymd(data[c][i + 1].key)
         /\ \E i \in 1..Len(data[c]) : data[c][i].val.den > 0
         /\ LET k == Kept IN \E j \in 1..Len(k) : k[j].concelho = c

\* the store has a county with two dates whose records came latest first
C7_Witness ==
    /\ StoreBuilt
    /\ \E c \in DOMAIN data : Len(data[c]) >= 2
    /\ LET k == Kept
       IN \E i, j \in 1..Len(k) :
             /\ i < j
             /\ k[i].concelho = k[j].concelho
             /\ k[i].data > k[j].data

\* the positions in the kept records k of the records of county c at w
CellRows(k, c, w) == {j \in 1..Len(k) : k[j].concelho = c /\ k[j].data = w}

RECURSIVE SumRows(_, _)
SumRows(k, J) ==
    IF J = {} THEN 0
    ELSE LET j == CHOOSE i \in J : TRUE IN k[j].confirmados_1 + SumRows(k, J \ {j})

\* C8 as claimed: when the records that pass the filters hold more than one
\* record of one county and date, getInfo raises DuplicateObservationError
\* and builds no store.
C8_DuplicateRaises ==
    LET k == Kept
    IN (\E j \in 1..Len(k) : Cardinality(CellRows(k, k[j].concelho, k[j].data)) > 1) =>
          getInfo_raised = "DuplicateObservationError"

\* C8 as amended: when the records that pass the filters hold more than one
\* record of one county and date, getInfo raises nothing and the store holds
\* exactly one observation of that county and date, whose value is the mean
\* of the values of those records.
C8_DuplicatesAveraged ==
    StoreBuilt =>
      LET k == Kept
      IN \A j \in 1..Len(k) :
            LET c == k[j].concelho
                w == k[j].data
                rows == CellRows(k, c, w)
            IN Cardinality(rows) > 1 =>
                 /\ c \in DOMAIN data
                 /\ Cardinality({i \in 1..Len(data[c]) : data[c][i].key = DateOf(w)}) = 1
                 /\ \A i \in 1..Len(data[c]) :
                       data[c][i].key = DateOf(w) =>
                          /\ data[c][i].val.den = Cardinality(rows)
                          /\ data[c][i].val.num = SumRows(k, rows)

\* two records of one county and date with different values were kept
C8_Witness ==
    /\ StoreBuilt
    /\ LET k == Kept
       IN \E i, j \in 1..Len(k) :
             /\ i < j
             /\ k[i].concelho = k[j].concelho
             /\ k[i].data = k[j].data
             /\ k[i].confirmados_1 # k[j].confirmados_1

(***************************************************************************)
(* Properties of plotData (checked under SpecPlot)                         *)
(***************************************************************************)
\* plotData built the x axis (line 145 was reached)
XBuilt == plot.dates_key # ""

\* plotData called np.polyfit and it returned
Fitted == plot.z.raised = ""

\* the series whose dates plotData read, and its length n
Series == data[plot.dates_key]

N == Len(Series)

\* the observed date d_i as a datetime
ObservedDate(i) == strptime_ymd(Series[i].key)

\* C1: the x values handed to np.polyfit are the first n entries of the x
\* axis, one for each of the n observed y values, and none of them is an x
\* value of a future date.
C1_FitOnObserved ==
    Fitted =>
      /\ plot.z.x = SubSeq(plot.x, 1, N)
      /\ Len(plot.z.y) = N
      /\ \A k \in (N + 1)..Len(plot.x) : plot.x[k] \notin Range(plot.z.x)

\* a fit of at least two observed points with future dates on the axis
C1_Witness == Fitted /\ plot.predictions > 0 /\ N >= 2 /\ Len(plot.x) > N

\* C2: the x axis has len(series) + predictions entries, the observed dates
\* first and the future dates after them.
C2_AxisLength ==
    XBuilt =>
      /\ Len(plot.x) = N + plot.predictions
      /\ Len(plot.dates) = N + plot.predictions
      /\ \A i \in 1..N : plot.dates[i] = ObservedDate(i)

\* an axis of two observed and two future dates or more
C2_Witness == XBuilt /\ N >= 2 /\ plot.predictions = MaxPredictions /\ Len(plot.x) >= 4

\* C3: x_0 = 0 and x_i = x_{i-1} + (d_i - d_{i-1}) in days, so that x_i is
\* the number of days from d_0 to d_i.
C3_DayOffsets ==
    XBuilt =>
      /\ plot.x[1] = 0
      /\ \A i \in 2..N : (plot.x[i] - plot.x[i - 1]) * DAY = ObservedDate(i) - ObservedDate(i - 1)
      /\ \A i \in 1..N : plot.x[i] * DAY = ObservedDate(i) - ObservedDate(1)

\* the dates 2021-01-01, 2021-01-03, 2021-01-10 give x = [0, 2, 9]
C3_Witness ==
    /\ XBuilt
    /\ N = 3
    /\ [i \in 1..N |-> Series[i].key] = << <<2021, 1, 1>>, <<2021, 1, 3>>, <<2021, 1, 10>> >>
    /\ SubSeq(plot.x, 1, 3) = <<0, 2, 9>>

\* C4: with predictions > 0, the k-th future date is the last observed date
\* plus 30 k days and its x value is the last observed x plus 30 k, for
\* every k in 1..predictions.
C4_FutureDates ==
    (XBuilt /\ plot.predictions > 0) =>
      /\ Len(plot.x) = N + plot.predictions
      /\ \A k \in 1..plot.predictions :
            /\ DateOf(plot.dates[N + k]) = DateOf(ObservedDate(N) + k * 30 * DAY)
            /\ plot.x[N + k] = plot.x[N] + 30 * k

\* C5: with predictions > 0 (1 as well as more) the split line is drawn
\* between the last observed x and the first future x, the observed points
\* are the first n and the predicted points start at index n; with
\* predictions = 0 no line and no predicted point is drawn and all n points
\* are observed. The degree plays no part.
C5_Split ==
    (plot.raised = "") =>
      IF plot.predictions > 0
      THEN /\ plot.axvline.drawn
           /\ plot.axvline.of = <<plot.x[N], plot.x[N + 1]>>
           /\ plot.x[N] < plot.x[N + 1]
           /\ plot.confirmed = SubSeq(plot.x, 1, N)
           /\ plot.predicted.drawn
           /\ plot.predicted.x = SubSeq(plot.x, N + 1, Len(plot.x))
      ELSE /\ ~plot.axvline.drawn
           /\ ~plot.predicted.drawn
           /\ plot.predicted.x = <<>>
           /\ plot.confirmed = plot.x
           /\ Len(plot.x) = N

\* a figure with one prediction
C5_Witness == plot.raised = "" /\ plot.predictions = 1 /\ plot.axvline.drawn

C10_SameKey == Fitted => plot.dates_key = plot.values_key

====
